---- MODULE Spec2Model ----
(***************************************************************************)
(* Job orchestration and production pipeline of the podcast backend:       *)
(* research jobs (api/research.py, services/research_service.py) and       *)
(* production jobs (api/production.py, services/production_service.py),   *)
(* and the speech-synthesis adapters they call (services/*_tts.py) with    *)
(* the voice-list endpoint (api/tts.py).                                   *)
(*                                                                         *)
(* A job record holds the committed row of the job table.  A background    *)
(* task is a coroutine; one action is the code it runs between two         *)
(* suspension points (awaits), ending in the db.commit() it reaches.       *)
(* Times are in tenths of a second, so that len(words) / 2.5 seconds is    *)
(* the integer 4 * words.  A text is modelled by its number of words.  The *)
(* columns that only carry a value along (user_id, topic, title, the       *)
(* export's url, size and duration) are left out of the rows.              *)
(***************************************************************************)
EXTENDS Integers, Sequences, FiniteSets, TLC

VARIABLES
    research,     \* research_jobs table: sequence of rows, the id is the index
    rtasks,       \* execute_research_job coroutine of each research job
    production,   \* production_jobs table: sequence of rows, the id is the index
    ptasks,       \* execute_segment_generation coroutines, in order of add_task
    response,     \* the HTTP response of the last request handled
    speech,       \* the generate_speech coroutine of a synthesis adapter
    resolved      \* the last voice-list request and what get_voices_dynamic returned

vars == <<research, rtasks, production, ptasks, response, speech, resolved>>

\* ---------------------------------------------------------------- bounds
MaxResearchJobs == 1
MaxProductionJobs == 1
MaxTasks == 2
MaxJobPair == 2

\* None of a string column
Null == "null"

\* An optional value that is a list or a record: None, or Some(value)
None == {}
Some(value) == {value}
Get(optional) == CHOOSE value \in optional : TRUE

ResearchIds == 1..MaxResearchJobs
ProductionIds == 1..MaxProductionJobs

\* ---------------------------------------------------------------- research
\* for audience in [YOUNG, MIDDLE_AGED, SCIENTIFIC]
AudienceOrder == <<"young", "middle_aged", "scientific">>
Audiences == {AudienceOrder[i] : i \in 1..Len(AudienceOrder)}

\* _generate_characters(num_guests = 1, include_listener = False)
Characters == <<"host_1", "guest_1">>

\* The parsed segments of the script the generator writes for an audience:
\* speaker_id and the number of words of the text.  The scientific script has
\* no "Name: dialogue" line, so _parse_script_segments returns [].
ScriptFor(audience) ==
    CASE audience = "young" ->
            << [speaker_id |-> "host_1", words |-> 2],
               [speaker_id |-> "guest_1", words |-> 1],
               [speaker_id |-> "host_1", words |-> 3] >>
      [] audience = "middle_aged" ->
            << [speaker_id |-> "guest_1", words |-> 2],
               [speaker_id |-> "host_1", words |-> 1] >>
      [] OTHER -> << >>

ScriptVariant(audience) ==
    [audience |-> audience, characters |-> Characters, segments |-> ScriptFor(audience)]

\* _generate_variants: one variant per audience in order; an audience whose
\* generation raised is logged and left out.
RECURSIVE GenerateVariantsFrom(_, _)
GenerateVariantsFrom(i, failing) ==
    IF i > Len(AudienceOrder) THEN << >>
    ELSE (IF AudienceOrder[i] \in failing THEN << >>
          ELSE << ScriptVariant(AudienceOrder[i]) >>)
         \o GenerateVariantsFrom(i + 1, failing)

_generate_variants(failing) == GenerateVariantsFrom(1, failing)

NewResearchJob ==
    [status |-> "pending", progress_percent |-> 0, current_step |-> "Initializing",
     research_data |-> Null, variants_data |-> None, recommended_variant |-> Null,
     error_message |-> Null, completed_at |-> Null]

NewResearchTask == [pc |-> "queued", research_result |-> Null, variants |-> << >>]

\* The coroutine after its return: its locals are gone
EndedResearchTask == [pc |-> "done", research_result |-> Null, variants |-> << >>]

\* The except handlers query the row, assign it and commit.  stored is FALSE
\* when that query or commit raises: the exception leaves the task and the row
\* stays as it was last committed.  (A store error inside the try block
\* enters the handler like the other exceptions.)
Handled(committed, failed, stored) == IF stored THEN failed ELSE committed

\* except Exception as e: the handler of execute_research_job, applied to the
\* row as the coroutine holds it (its uncommitted assignments included).
ResearchFailed(job) ==
    [job EXCEPT !.status = "failed", !.error_message = "error"]

\* the HTTP response of a handler: the endpoint, the status code and, for
\* the polling endpoints, the response model
RespondWith(op, code, body) == response' = [op |-> op, code |-> code, body |-> body]
Respond(op, code) == RespondWith(op, code, None)

\* POST /research/start
start_research(available) ==
    /\ IF ~available
       THEN /\ Respond("start_research", 503)
            /\ UNCHANGED <<research, rtasks>>
       ELSE /\ Len(research) < MaxResearchJobs
            /\ research' = Append(research, NewResearchJob)
            /\ rtasks' = Append(rtasks, NewResearchTask)
            /\ Respond("start_research", 200)
    /\ UNCHANGED <<production, ptasks, speech, resolved>>

\* execute_research_job, lines 37-47: up to the await of execute_research
execute_research_job_begin(r) ==
    /\ r \in 1..Len(research)
    /\ rtasks[r].pc = "queued"
    /\ research' = [research EXCEPT ![r] =
           [@ EXCEPT !.status = "researching",
                     !.current_step = "Performing multi-source research",
                     !.progress_percent = 10]]
    /\ rtasks' = [rtasks EXCEPT ![r].pc = "research"]
    /\ UNCHANGED <<production, ptasks, response, speech, resolved>>

\* a bug that forgets the status update of lines 53-55
ResearchGeneratingKeepsStatus(job) ==
    [job EXCEPT !.current_step = "Saving variants to filesystem",
                !.progress_percent = 80]

\* execute_research_job, lines 53-55: the assignments after execute_research
ResearchGenerating(job) ==
    [job EXCEPT !.status = "generating",
                !.current_step = "Saving variants to filesystem",
                !.progress_percent = 80]

\* execute_research_job, lines 50-56: execute_research returns or raises
execute_research_job_research(r, raises, failing, stored) ==
    /\ r \in 1..Len(research)
    /\ rtasks[r].pc = "research"
    /\ IF raises
       THEN /\ research' = [research EXCEPT ![r] = Handled(@, ResearchFailed(@), stored)]
            /\ rtasks' = [rtasks EXCEPT ![r] = EndedResearchTask]
       ELSE /\ research' = [research EXCEPT ![r] = ResearchGenerating(@)]
            /\ rtasks' = [rtasks EXCEPT ![r] =
                   [pc |-> "save", research_result |-> "research_result",
                    variants |-> _generate_variants(failing)]]
    /\ UNCHANGED <<production, ptasks, response, speech, resolved>>

\* execute_research_job, lines 66-75: the assignments of the completed job
ResearchCompleted(job, task) ==
    [job EXCEPT !.status = "completed",
                !.progress_percent = 100,
                !.current_step = "Completed",
                !.research_data = task.research_result,
                !.variants_data = Some(task.variants),
                !.recommended_variant = "middle_aged",
                !.completed_at = "set"]

\* execute_research_job, lines 59-89: save_variants_to_filesystem returns or
\* raises; line 76 subtracts job.created_at (a DateTime(timezone=True) column,
\* timezone-aware on PostgreSQL, naive on SQLite) from the naive utcnow() and
\* raises TypeError for the aware value, after lines 66-75 assigned the row.
execute_research_job_save(r, outcome, stored) ==
    /\ r \in 1..Len(research)
    /\ rtasks[r].pc = "save"
    /\ research' = [research EXCEPT ![r] =
           CASE outcome = "ok" -> ResearchCompleted(@, rtasks[r])
             [] outcome = "save_raises" -> Handled(@, ResearchFailed(@), stored)
             [] outcome = "processing_time_raises" ->
                    Handled(@, ResearchFailed(ResearchCompleted(@, rtasks[r])), stored)]
    /\ rtasks' = [rtasks EXCEPT ![r] = EndedResearchTask]
    /\ UNCHANGED <<production, ptasks, response, speech, resolved>>

SaveOutcomes == {"ok", "save_raises", "processing_time_raises"}

\* GET /research/status/{job_id}
get_research_status(job_id) ==
    /\ UNCHANGED <<research, rtasks, production, ptasks, speech, resolved>>
    /\ IF job_id > Len(research)
       THEN Respond("get_research_status", 404)
       ELSE RespondWith("get_research_status", 200,
                Some([status |-> research[job_id].status,
                      progress_percent |-> research[job_id].progress_percent,
                      current_step |-> research[job_id].current_step,
                      error_message |-> research[job_id].error_message]))

\* GET /research/result/{job_id}
get_research_result(job_id) ==
    /\ UNCHANGED <<research, rtasks, production, ptasks, speech, resolved>>
    /\ IF job_id > Len(research)
       THEN Respond("get_research_result", 404)
       ELSE IF research[job_id].status # "completed"
       THEN Respond("get_research_result", 400)
       ELSE RespondWith("get_research_result", 200,
                Some([status |-> research[job_id].status,
                      research_result |-> research[job_id].research_data,
                      variants |-> IF research[job_id].variants_data = None THEN << >>
                                   ELSE Get(research[job_id].variants_data),
                      completed_at |-> research[job_id].completed_at]))

\* The audiences whose script generation raises, in one run of
\* _generate_variants: none, one of them, all of them
FailingAudiences == { {}, {"young"}, Audiences }

\* ---------------------------------------------------------------- production
\* GenerateSegmentsRequest.voice_assignments values a caller sends
VoiceRequests ==
    { << [character_id |-> "host_1", provider |-> "elevenlabs", voice_id |-> "rachel"],
         [character_id |-> "guest_1", provider |-> "elevenlabs", voice_id |-> "adam"] >>,
      << [character_id |-> "host_1", provider |-> "openai", voice_id |-> "alloy"] >>,
      << >> }

\* voice_map = {assignment.character_id: assignment ...}; voice_map.get(id):
\* the last assignment of the list for the character, None without one.
RECURSIVE VoiceMapGet(_, _)
VoiceMapGet(voice_assignments, character_id) ==
    IF voice_assignments = << >> THEN None
    ELSE LET last == voice_assignments[Len(voice_assignments)]
         IN  IF last.character_id = character_id THEN Some(last)
             ELSE VoiceMapGet(SubSeq(voice_assignments, 1, Len(voice_assignments) - 1),
                              character_id)

RECURSIVE SumDuration(_)
SumDuration(segments) ==
    IF segments = << >> THEN 0
    ELSE segments[1].duration + SumDuration(Tail(segments))

\* duration = len(text.split()) / 2.5 seconds, in tenths of a second
Duration(words) == words * 4

\* AudioSegment(..., status="ready") of ProductionService.generate_segments
ReadySegment(idx, seg, assignment, audio_segments) ==
    [segment_number |-> idx,
     character_id |-> seg.speaker_id,
     provider |-> assignment.provider,
     voice_id |-> assignment.voice_id,
     start_time |-> SumDuration(audio_segments),
     duration |-> Duration(seg.words),
     end_time |-> SumDuration(audio_segments) + Duration(seg.words),
     audio_path |-> "segment.mp3",
     status |-> "ready"]

\* AudioSegment(..., status="error"): the timing, voice and file fields keep
\* the defaults of the AudioSegment model.
ErrorSegment(idx, seg) ==
    [segment_number |-> idx,
     character_id |-> seg.speaker_id,
     provider |-> Null,
     voice_id |-> Null,
     start_time |-> 0,
     duration |-> 0,
     end_time |-> 0,
     audio_path |-> Null,
     status |-> "error"]

RECURSIVE MaxEndTime(_)
MaxEndTime(segments) ==
    IF segments = << >> THEN 0
    ELSE LET rest == MaxEndTime(Tail(segments))
         IN  IF segments[1].end_time > rest THEN segments[1].end_time ELSE rest

\* a bug that takes the end of the last segment for the end of the timeline
create_timeline_last_end(audio_segments) ==
    [total_duration |-> IF audio_segments = << >> THEN 0
                        ELSE audio_segments[Len(audio_segments)].end_time,
     tracks |-> << [track_type |-> "speech", segments |-> audio_segments],
                   [track_type |-> "music", segments |-> << >>],
                   [track_type |-> "sfx", segments |-> << >>] >>]

\* ProductionService.create_timeline
create_timeline(audio_segments) ==
    [total_duration |-> MaxEndTime(audio_segments),
     tracks |-> << [track_type |-> "speech", segments |-> audio_segments],
                   [track_type |-> "music", segments |-> << >>],
                   [track_type |-> "sfx", segments |-> << >>] >>]

NewProductionJob(research_job_id, selected_variant, characters) ==
    [research_job_id |-> research_job_id,
     selected_variant |-> selected_variant,
     status |-> "voice_assignment",
     progress_percent |-> 0,
     current_step |-> "Waiting for voice assignments",
     voice_assignments |-> None,
     timeline_data |-> None,
     total_segments |-> Len(characters),
     segments_generated |-> 0,
     segments_data |-> None,
     final_audio_path |-> Null,
     error_message |-> Null,
     completed_at |-> Null]

\* next((v for v in variants_data if v.get("audience") == selected_variant), None)
RECURSIVE SelectVariant(_, _)
SelectVariant(variants_data, selected_variant) ==
    IF variants_data = << >> THEN None
    ELSE IF variants_data[1].audience = selected_variant THEN Some(variants_data[1])
    ELSE SelectVariant(Tail(variants_data), selected_variant)

\* research_job.variants_data or []
VariantsOrEmpty(research_job) ==
    IF research_job.variants_data = None THEN << >> ELSE Get(research_job.variants_data)

\* POST /production/start, with create_production_from_research; max_jobs
\* bounds the rows of the table
start_production_upto(research_job_id, selected_variant, max_jobs) ==
    /\ UNCHANGED <<research, rtasks, ptasks, speech, resolved>>
    /\ IF research_job_id > Len(research)
       THEN Respond("start_production", 404) /\ UNCHANGED production
       ELSE IF research[research_job_id].status # "completed"
       THEN Respond("start_production", 400) /\ UNCHANGED production
       ELSE LET selected == SelectVariant(VariantsOrEmpty(research[research_job_id]),
                                          selected_variant)
            IN  IF selected = None \/ Get(selected).characters = << >>
                THEN Respond("start_production", 500) /\ UNCHANGED production
                ELSE /\ Len(production) < max_jobs
                     /\ production' = Append(production,
                            NewProductionJob(research_job_id, selected_variant,
                                             Get(selected).characters))
                     /\ Respond("start_production", 200)

start_production(research_job_id, selected_variant) ==
    start_production_upto(research_job_id, selected_variant, MaxProductionJobs)

\* The coroutine after its return: its locals are gone
EndedSegmentTask(task) ==
    [task EXCEPT !.pc = "done", !.idx = 0, !.script_segments = << >>,
                 !.voice_assignments = << >>, !.audio_segments = << >>]

\* a bug that hands every execution the first job of the table
NewSegmentTaskOfFirstJob(production_job_id, script_segments, voice_assignments) ==
    [production_job_id |-> 1,
     script_segments |-> script_segments,
     voice_assignments |-> voice_assignments,
     pc |-> "queued", idx |-> 1, audio_segments |-> << >>]

\* execute_segment_generation as background_tasks.add_task enqueues it
NewSegmentTask(production_job_id, script_segments, voice_assignments) ==
    [production_job_id |-> production_job_id,
     script_segments |-> script_segments,
     voice_assignments |-> voice_assignments,
     pc |-> "queued", idx |-> 1, audio_segments |-> << >>]

\* a bug that lets a failed job be started again
InVoiceAssignmentStageOrFailed(job) ==
    job.status \in {"voice_assignment", "failed"}

\* generate_segments, line 180: the job waits for its voice assignments
InVoiceAssignmentStage(job) == job.status = "voice_assignment"

\* POST /production/generate-segments
generate_segments(production_job_id, voice_assignments) ==
    /\ UNCHANGED <<research, rtasks, speech, resolved>>
    /\ IF production_job_id > Len(production)
       THEN Respond("generate_segments", 404) /\ UNCHANGED <<production, ptasks>>
       ELSE LET job == production[production_job_id]
                research_job == research[job.research_job_id]
                selected == SelectVariant(VariantsOrEmpty(research_job),
                                          job.selected_variant)
            IN  IF ~InVoiceAssignmentStage(job)
                THEN Respond("generate_segments", 400) /\ UNCHANGED <<production, ptasks>>
                ELSE IF VariantsOrEmpty(research_job) = << >> \/ selected = None
                THEN Respond("generate_segments", 404) /\ UNCHANGED <<production, ptasks>>
                ELSE IF Get(selected).segments = << >>
                THEN Respond("generate_segments", 400) /\ UNCHANGED <<production, ptasks>>
                ELSE /\ Len(ptasks) < MaxTasks
                     /\ production' = [production EXCEPT
                            ![production_job_id].voice_assignments = Some(voice_assignments)]
                     /\ ptasks' = Append(ptasks,
                            NewSegmentTask(production_job_id, Get(selected).segments,
                                           voice_assignments))
                     /\ Respond("generate_segments", 200)

\* except Exception as e: the handler of execute_segment_generation
ProductionFailed(job) ==
    [job EXCEPT !.status = "failed", !.error_message = "error"]

\* execute_segment_generation, lines 44-52: up to the call of generate_segments
execute_segment_generation_begin(t) ==
    /\ t \in 1..Len(ptasks)
    /\ ptasks[t].pc = "queued"
    /\ production' = [production EXCEPT ![ptasks[t].production_job_id] =
           [@ EXCEPT !.status = "generating_segments",
                     !.current_step = "Generating audio segments",
                     !.progress_percent = 10]]
    /\ ptasks' = [ptasks EXCEPT ![t].pc = "mkdir"]
    /\ UNCHANGED <<research, rtasks, response, speech, resolved>>

\* ProductionService.generate_segments, lines 90-100: output_dir.mkdir raises
\* OSError or the loop is entered
generate_segments_mkdir(t, raises, stored) ==
    /\ t \in 1..Len(ptasks)
    /\ ptasks[t].pc = "mkdir"
    /\ IF raises
       THEN /\ production' = [production EXCEPT ![ptasks[t].production_job_id] =
                   Handled(@, ProductionFailed(@), stored)]
            /\ ptasks' = [ptasks EXCEPT ![t] = EndedSegmentTask(@)]
       ELSE /\ ptasks' = [ptasks EXCEPT ![t].pc = "segments"]
            /\ UNCHANGED production
    /\ UNCHANGED <<research, rtasks, response, speech, resolved>>

\* ProductionService.generate_segments, lines 102-164: one iteration of the
\* loop; synthesized tells whether _generate_audio_for_segment returned
generate_segments_step(t, synthesized) ==
    /\ t \in 1..Len(ptasks)
    /\ ptasks[t].pc = "segments"
    /\ ptasks[t].idx <= Len(ptasks[t].script_segments)
    /\ LET task == ptasks[t]
           seg == task.script_segments[task.idx]
           assignment == VoiceMapGet(task.voice_assignments, seg.speaker_id)
       IN  ptasks' = [ptasks EXCEPT ![t] =
               [@ EXCEPT !.idx = task.idx + 1,
                         !.audio_segments =
                             IF assignment = None THEN task.audio_segments
                             ELSE IF synthesized
                             THEN Append(task.audio_segments,
                                      ReadySegment(task.idx, seg, Get(assignment),
                                                   task.audio_segments))
                             ELSE Append(task.audio_segments, ErrorSegment(task.idx, seg))]]
    /\ UNCHANGED <<research, rtasks, production, response, speech, resolved>>

\* execute_segment_generation, lines 62-79: after generate_segments returned
execute_segment_generation_finish(t) ==
    /\ t \in 1..Len(ptasks)
    /\ ptasks[t].pc = "segments"
    /\ ptasks[t].idx > Len(ptasks[t].script_segments)
    /\ production' = [production EXCEPT ![ptasks[t].production_job_id] =
           [@ EXCEPT !.status = "ready_for_editing",
                     !.progress_percent = 100,
                     !.current_step = "Ready for editing",
                     !.segments_generated = Len(ptasks[t].audio_segments),
                     !.segments_data = Some(ptasks[t].audio_segments),
                     !.timeline_data = Some(create_timeline(ptasks[t].audio_segments))]]
    /\ ptasks' = [ptasks EXCEPT ![t] = EndedSegmentTask(@)]
    /\ UNCHANGED <<research, rtasks, response, speech, resolved>>

\* TimelineUpdateRequest.timeline values a caller sends
EditedSegment ==
    [segment_number |-> 1, character_id |-> "host_1", provider |-> "openai",
     voice_id |-> "alloy", start_time |-> 0, duration |-> 8, end_time |-> 8,
     audio_path |-> "segment.mp3", status |-> "ready"]

EditedTimeline(total_duration, segments) ==
    [total_duration |-> total_duration,
     tracks |-> << [track_type |-> "speech", segments |-> segments],
                   [track_type |-> "music", segments |-> << >>],
                   [track_type |-> "sfx", segments |-> << >>] >>]

TimelineRequests ==
    { EditedTimeline(8, << EditedSegment >>),
      EditedTimeline(20, << EditedSegment >>),
      EditedTimeline(0, << >>) }

\* a bug that keeps the tracks of the stored timeline and takes only the
\* total_duration of the request
update_timeline_merging(production_job_id, timeline) ==
    /\ UNCHANGED <<research, rtasks, ptasks, speech, resolved>>
    /\ IF production_job_id > Len(production)
       THEN Respond("update_timeline", 404) /\ UNCHANGED production
       ELSE /\ production' = [production EXCEPT ![production_job_id] =
                   [@ EXCEPT !.timeline_data =
                                 IF @ = None THEN Some(timeline)
                                 ELSE Some([Get(@) EXCEPT !.total_duration =
                                                timeline.total_duration]),
                             !.status = "editing"]]
            /\ Respond("update_timeline", 200)

\* PUT /production/timeline
update_timeline(production_job_id, timeline) ==
    /\ UNCHANGED <<research, rtasks, ptasks, speech, resolved>>
    /\ IF production_job_id > Len(production)
       THEN Respond("update_timeline", 404) /\ UNCHANGED production
       ELSE /\ production' = [production EXCEPT ![production_job_id] =
                   [@ EXCEPT !.timeline_data = Some(timeline), !.status = "editing"]]
            /\ Respond("update_timeline", 200)

\* next((t for t in timeline.tracks if t.track_type == "speech"), None)
RECURSIVE SpeechTrack(_)
SpeechTrack(tracks) ==
    IF tracks = << >> THEN None
    ELSE IF tracks[1].track_type = "speech" THEN Some(tracks[1])
    ELSE SpeechTrack(Tail(tracks))

\* sorted(speech_track.segments, key=lambda s: s.segment_number)[0]: the first
\* segment of the least segment_number
FirstSorted(segments) ==
    LET least == CHOOSE n \in {segments[i].segment_number : i \in 1..Len(segments)} :
                     \A i \in 1..Len(segments) : n <= segments[i].segment_number
        first == CHOOSE i \in 1..Len(segments) :
                     /\ segments[i].segment_number = least
                     /\ \A j \in 1..(i - 1) : segments[j].segment_number # least
    IN  segments[first]

\* ProductionService.export_final_podcast: TRUE when it returns.  It raises
\* ValueError without speech segments, TypeError in Path(None) when the first
\* segment has no audio_path, and file_ok is FALSE when stat() or copy raises.
export_final_podcast(timeline, file_ok) ==
    LET speech_track == SpeechTrack(timeline.tracks)
    IN  /\ speech_track # None
        /\ Get(speech_track).segments # << >>
        /\ FirstSorted(Get(speech_track).segments).audio_path # Null
        /\ file_ok

\* POST /production/export
export_podcast(production_job_id, file_ok) ==
    /\ UNCHANGED <<research, rtasks, ptasks, speech, resolved>>
    /\ IF production_job_id > Len(production)
       THEN Respond("export_podcast", 404) /\ UNCHANGED production
       ELSE IF production[production_job_id].timeline_data = None
       THEN Respond("export_podcast", 400) /\ UNCHANGED production
       ELSE IF ~export_final_podcast(Get(production[production_job_id].timeline_data),
                                     file_ok)
       THEN Respond("export_podcast", 500) /\ UNCHANGED production
       ELSE /\ production' = [production EXCEPT ![production_job_id] =
                   [@ EXCEPT !.status = "completed",
                             !.final_audio_path = "final_podcast.mp3",
                             !.completed_at = "set"]]
            /\ Respond("export_podcast", 200)

\* ---------------------------------------------------------------- synthesis
\* OpenAITTSService, ElevenLabsTTSService, SpeechifyTTSService
SpeechProviders == {"openai", "elevenlabs", "speechify"}

\* max_retries = 3
max_retries == 3

\* OpenAITTSService.VOICES and MODELS, SpeechifyTTSService.MODELS
OpenAIVoices == {"alloy", "echo", "fable", "onyx", "nova", "shimmer"}
OpenAIModels == {"tts-1", "tts-1-hd"}
SpeechifyModels == {"simba-english", "simba-multilingual", "simba-turbo"}

\* model.startswith("simba"), on the model names a caller sends
StartsWithSimba(model) == model \in SpeechifyModels \cup {"simba-base"}

\* The arguments of a generate_speech call.  speed, stability,
\* similarity_boost and style are in hundredths.
SpeechRequest(provider, voice, model, speed, stability, similarity_boost, style) ==
    [provider |-> provider, voice |-> voice, model |-> model, speed |-> speed,
     stability |-> stability, similarity_boost |-> similarity_boost, style |-> style]

SpeechRequests ==
    { SpeechRequest("openai", "alloy", "tts-1-hd", 100, 50, 75, 0),
      SpeechRequest("openai", "rachel", "tts-1-hd", 100, 50, 75, 0),
      SpeechRequest("openai", "alloy", "simba-english", 100, 50, 75, 0),
      SpeechRequest("openai", "alloy", "tts-1", 500, 50, 75, 0),
      SpeechRequest("elevenlabs", "rachel", "eleven_monolingual_v1", 100, 50, 75, 0),
      SpeechRequest("elevenlabs", "rachel", "eleven_monolingual_v1", 100, 150, 75, 0),
      SpeechRequest("elevenlabs", "rachel", "eleven_monolingual_v1", 100, 50, 75, 101),
      SpeechRequest("speechify", "mia", "simba-base", 100, 50, 75, 0),
      SpeechRequest("speechify", "mia", "tts-1", 100, 50, 75, 0),
      SpeechRequest("speechify", "mia", "simba-english", 10, 50, 75, 0) }

\* the input validation of generate_speech: FALSE where it raises ValueError
ValidSpeechRequest(req) ==
    CASE req.provider = "openai" ->
            /\ req.voice \in OpenAIVoices
            /\ req.model \in OpenAIModels
            /\ 25 <= req.speed /\ req.speed <= 400
      [] req.provider = "elevenlabs" ->
            /\ 0 <= req.stability /\ req.stability <= 100
            /\ 0 <= req.similarity_boost /\ req.similarity_boost <= 100
            /\ 0 <= req.style /\ req.style <= 100
      [] OTHER ->
            /\ req.model \in SpeechifyModels \/ StartsWithSimba(req.model)
            /\ 25 <= req.speed /\ req.speed <= 400

\* What one pass of the try block meets: status 200 and the audio saved, status
\* 200 and output_path.write_bytes raising OSError, a status 4xx, a status
\* 5xx, httpx.TimeoutException, another httpx error of client.post
AttemptOutcomes ==
    {"ok", "write_raises", "client_error", "server_error", "timeout", "network_error"}

\* no generate_speech call is running
NoSpeech ==
    [pc |-> "idle", request |-> None, attempt |-> 0, retry_delay |-> 0,
     outcomes |-> << >>, sleeps |-> << >>, error |-> Null]

\* the call raised: error is the class of the exception
SpeechRaised(call, error) == [call EXCEPT !.pc = "raised", !.error = error]

\* generate_speech up to the loop: is_available(), the validation, then
\* retry_delay = 1.0 and the first pass of for attempt in range(max_retries)
generate_speech(req, available) ==
    /\ speech.pc \in {"idle", "returned", "raised"}
    /\ LET call == [NoSpeech EXCEPT !.request = Some(req)]
       IN  speech' = IF ~available THEN SpeechRaised(call, "Exception")
                     ELSE IF ~ValidSpeechRequest(req) THEN SpeechRaised(call, "ValueError")
                     ELSE [call EXCEPT !.pc = "post", !.retry_delay = 1]
    /\ UNCHANGED <<research, rtasks, production, ptasks, response, resolved>>

\* attempt < max_retries - 1
MayRetry(attempt) == attempt < max_retries - 1

\* the branch every failed pass ends in: asyncio.sleep(retry_delay) is next,
\* or the exception leaves the call
RetryOrRaise(call, error) ==
    IF MayRetry(call.attempt) THEN [call EXCEPT !.pc = "sleep"]
    ELSE SpeechRaised(call, error)

\* One pass of the try block: client.post and what follows its outcome.  The
\* Exception raised for a 4xx status (and the one raised for the last 5xx) is
\* raised inside the try block, so the handler "except Exception as e" catches
\* it; that handler retries whatever is not a ValueError.
generate_speech_post(outcome) ==
    /\ speech.pc = "post"
    /\ LET call == [speech EXCEPT !.outcomes = Append(@, outcome)]
       IN  speech' =
               CASE outcome = "ok" -> [call EXCEPT !.pc = "returned"]
                 [] outcome = "server_error" -> RetryOrRaise(call, "Exception")
                 [] outcome = "client_error" -> RetryOrRaise(call, "Exception")
                 [] outcome = "timeout" -> RetryOrRaise(call, "Exception")
                 [] outcome = "write_raises" -> RetryOrRaise(call, "OSError")
                 [] OTHER -> RetryOrRaise(call, "HTTPError")
    /\ UNCHANGED <<research, rtasks, production, ptasks, response, resolved>>

\* a bug that waits the same delay before every retry
BackoffConstant(retry_delay) == retry_delay

\* retry_delay *= 2
Backoff(retry_delay) == retry_delay * 2

\* await asyncio.sleep(retry_delay), retry_delay *= 2 and the next pass of
\* the loop
generate_speech_sleep ==
    /\ speech.pc = "sleep"
    /\ speech' = [speech EXCEPT !.pc = "post",
                                !.sleeps = Append(@, speech.retry_delay),
                                !.retry_delay = Backoff(@),
                                !.attempt = @ + 1]
    /\ UNCHANGED <<research, rtasks, production, ptasks, response, resolved>>

\* ---------------------------------------------------------------- voices
\* TTSProvider
VoiceProviders == {"openai", "speechify", "google", "microsoft", "elevenlabs"}

\* an optional filter is applied when it is given: "if language_filter and"
Given(filter) == filter # Null

\* v.get("category"): None when the voice has no such key
CategoryOf(voice) == IF "category" \in DOMAIN voice THEN voice.category ELSE Null

\* str.lower() on the locales, genders and filters of this model
Lower(text) ==
    CASE text = "en-US" -> "en-us"
      [] text = "de-DE" -> "de-de"
      [] text = "Female" -> "female"
      [] text = "Male" -> "male"
      [] OTHER -> text

\* locale.split("-")[0]
LanguageCode(locale) ==
    CASE locale = "en-US" -> "en"
      [] locale = "de-DE" -> "de"
      [] OTHER -> locale

\* What the catalog request of a provider meets: a catalog with voices, an
\* empty catalog, or an error (a status other than 200, or an exception)
LiveOutcomes == {"voices", "empty", "error"}

\* get_available_voices, get_shared_voices, get_all_voices: each catches every
\* exception and returns [] for it and for a status other than 200
FetchedVoices(catalog, live) == IF live = "voices" THEN catalog ELSE << >>

\* ElevenLabsTTSService.get_voices: VOICES, the gender read by _guess_gender
ElevenLabsFallback ==
    << [id |-> "21m00Tcm4TlvDq8ikWAM", language |-> "en", gender |-> "female"],
       [id |-> "AZnzlk1XvdvUeBnXmlld", language |-> "en", gender |-> "female"],
       [id |-> "EXAVITQu4vr4xnSDxMaL", language |-> "en", gender |-> "female"],
       [id |-> "ErXwobaYiN019PkySvjV", language |-> "en", gender |-> "male"],
       [id |-> "MF3mGyEYCl7XYWbV9V6O", language |-> "en", gender |-> "female"],
       [id |-> "TxGEqnHWrfWFTfGW9XjX", language |-> "en", gender |-> "male"],
       [id |-> "VR6AewLTigWG4xSOukaG", language |-> "en", gender |-> "male"],
       [id |-> "pNInz6obpgDQGcFmaJgB", language |-> "en", gender |-> "male"],
       [id |-> "yoZ06aMxZJJ28mfd3POQ", language |-> "en", gender |-> "male"] >>

\* a catalog the ElevenLabs API answers with: GET /voices and GET /shared-voices
ElevenLabsStandard ==
    << [voice_id |-> "standard_1", category |-> "premade",
        labels |-> [language |-> "en", gender |-> "female"]],
       [voice_id |-> "standard_2", category |-> "professional",
        labels |-> [language |-> "de", gender |-> "male"]] >>

ElevenLabsShared ==
    << [voice_id |-> "shared_1", category |-> "professional",
        language |-> "de", gender |-> "female"] >>

\* the voice_data of a standard voice and of a shared voice
StandardVoiceData(voice) ==
    [id |-> voice.voice_id, language |-> voice.labels.language,
     gender |-> voice.labels.gender, category |-> voice.category]

SharedVoiceData(voice) ==
    [id |-> voice.voice_id, language |-> voice.language,
     gender |-> voice.gender, category |-> voice.category]

\* ElevenLabsTTSService.get_voices_dynamic
elevenlabs_get_voices_dynamic(available, language_filter, gender_filter, category_filter, live, shared) ==
    IF ~available
    THEN LET filtered == SelectSeq(ElevenLabsFallback, LAMBDA v :
                 /\ ~Given(gender_filter) \/ v.gender = gender_filter
                 /\ ~Given(category_filter) \/ CategoryOf(v) = category_filter)
         IN  IF (Given(gender_filter) \/ Given(category_filter)) /\ filtered # << >>
             THEN filtered
             ELSE ElevenLabsFallback
    ELSE LET api_voices == FetchedVoices(ElevenLabsStandard, live)
             shared_voices == FetchedVoices(ElevenLabsShared, shared)
             voices == SelectSeq(
                          [i \in 1..Len(api_voices) |-> StandardVoiceData(api_voices[i])]
                              \o [i \in 1..Len(shared_voices) |->
                                     SharedVoiceData(shared_voices[i])],
                          LAMBDA v :
                              /\ ~Given(language_filter) \/ v.language = language_filter
                              /\ ~Given(gender_filter) \/ v.gender = gender_filter
                              /\ ~Given(category_filter) \/ CategoryOf(v) = category_filter)
         IN  IF api_voices = << >> /\ shared_voices = << >> THEN ElevenLabsFallback
             ELSE IF voices # << >> THEN voices
             ELSE ElevenLabsFallback

\* SpeechifyTTSService.get_voices: VOICES, the gender read by _guess_gender
SpeechifyFallback ==
    << [id |-> "henry", language |-> "en", gender |-> "male"],
       [id |-> "mia", language |-> "en", gender |-> "female"],
       [id |-> "george", language |-> "en", gender |-> "male"],
       [id |-> "jessica", language |-> "en", gender |-> "female"],
       [id |-> "snoop", language |-> "en", gender |-> "male"] >>

\* a catalog the Speechify API answers with: GET /v1/voices
SpeechifyCatalog ==
    << [id |-> "speechify_1", locale |-> "en-US", gender |-> "female", type |-> "shared"],
       [id |-> "speechify_2", locale |-> "de-DE", gender |-> "male", type |-> "personal"] >>

SpeechifyVoiceData(voice) ==
    [id |-> voice.id, language |-> voice.locale,
     language_code |-> LanguageCode(voice.locale),
     gender |-> voice.gender, voice_type |-> voice.type]

\* SpeechifyTTSService.get_voices_dynamic
speechify_get_voices_dynamic(available, language_filter, gender_filter, voice_type_filter, live) ==
    IF ~available THEN SpeechifyFallback
    ELSE LET api_voices == FetchedVoices(SpeechifyCatalog, live)
             voices == SelectSeq(
                 [i \in 1..Len(api_voices) |-> SpeechifyVoiceData(api_voices[i])],
                 LAMBDA v :
                 /\ ~Given(language_filter)
                        \/ Lower(language_filter)
                               \in {Lower(v.language), Lower(v.language_code)}
                 /\ ~Given(gender_filter) \/ v.gender = gender_filter
                 /\ ~Given(voice_type_filter) \/ v.voice_type = voice_type_filter)
         IN  IF api_voices = << >> THEN SpeechifyFallback
             ELSE IF voices # << >> THEN voices
             ELSE SpeechifyFallback

\* the voices GoogleTTSService.get_voices builds from tts_langs(), in the
\* order of their names
GoogleLanguages ==
    << [id |-> "en", language |-> "en", gender |-> "neutral"],
       [id |-> "fr", language |-> "fr", gender |-> "neutral"],
       [id |-> "de", language |-> "de", gender |-> "neutral"] >>

\* the except branch of GoogleTTSService.get_voices
GoogleFallback ==
    << [id |-> "en", language |-> "en", gender |-> "neutral"],
       [id |-> "de", language |-> "de", gender |-> "neutral"] >>

\* GoogleTTSService.get_voices: tts_langs() returns languages, returns no
\* language, or raises
google_get_voices(live) ==
    IF live = "error" THEN GoogleFallback ELSE FetchedVoices(GoogleLanguages, live)

\* GoogleTTSService.get_voices_dynamic: gender_filter is ignored
google_get_voices_dynamic(language_filter, gender_filter, live) ==
    IF Given(language_filter)
    THEN SelectSeq(google_get_voices(live), LAMBDA v : v.language = language_filter)
    ELSE google_get_voices(live)

\* MicrosoftTTSService.get_voices: popular_voices
MicrosoftFallback ==
    << [id |-> "de-DE-KatjaNeural", language |-> "de", gender |-> "female"],
       [id |-> "de-DE-ConradNeural", language |-> "de", gender |-> "male"],
       [id |-> "de-DE-AmalaNeural", language |-> "de", gender |-> "female"],
       [id |-> "en-US-AriaNeural", language |-> "en", gender |-> "female"],
       [id |-> "en-US-GuyNeural", language |-> "en", gender |-> "male"],
       [id |-> "en-US-JennyNeural", language |-> "en", gender |-> "female"],
       [id |-> "en-GB-SoniaNeural", language |-> "en", gender |-> "female"],
       [id |-> "en-GB-RyanNeural", language |-> "en", gender |-> "male"],
       [id |-> "es-ES-ElviraNeural", language |-> "es", gender |-> "female"],
       [id |-> "es-ES-AlvaroNeural", language |-> "es", gender |-> "male"],
       [id |-> "fr-FR-DeniseNeural", language |-> "fr", gender |-> "female"],
       [id |-> "fr-FR-HenriNeural", language |-> "fr", gender |-> "male"],
       [id |-> "it-IT-ElsaNeural", language |-> "it", gender |-> "female"],
       [id |-> "it-IT-DiegoNeural", language |-> "it", gender |-> "male"],
       [id |-> "ja-JP-NanamiNeural", language |-> "ja", gender |-> "female"],
       [id |-> "ja-JP-KeitaNeural", language |-> "ja", gender |-> "male"] >>

\* a catalog edge_tts.list_voices() answers with
MicrosoftCatalog ==
    << [ShortName |-> "en-US-AriaNeural", Locale |-> "en-US", Gender |-> "Female"],
       [ShortName |-> "de-DE-ConradNeural", Locale |-> "de-DE", Gender |-> "Male"] >>

MicrosoftVoiceData(voice) ==
    [id |-> voice.ShortName, language |-> LanguageCode(voice.Locale),
     gender |-> IF Lower(voice.Gender) = "female" THEN "female" ELSE "male",
     locale |-> voice.Locale]

\* MicrosoftTTSService.get_voices_dynamic.  get_all_voices catches every
\* exception, so the try block is left only by its two return statements.
microsoft_get_voices_dynamic(language_filter, gender_filter, live) ==
    LET all_voices == FetchedVoices(MicrosoftCatalog, live)
    IN  IF all_voices = << >> THEN MicrosoftFallback
        ELSE SelectSeq(
                 [i \in 1..Len(all_voices) |-> MicrosoftVoiceData(all_voices[i])],
                 LAMBDA v :
                 /\ ~Given(language_filter) \/ v.language = language_filter
                 /\ ~Given(gender_filter) \/ v.gender = gender_filter)

\* OpenAITTSService.get_voices: VOICES, the gender read by _guess_gender
OpenAIFallback ==
    << [id |-> "alloy", language |-> "en", gender |-> "male"],
       [id |-> "echo", language |-> "en", gender |-> "male"],
       [id |-> "fable", language |-> "en", gender |-> "male"],
       [id |-> "onyx", language |-> "en", gender |-> "male"],
       [id |-> "nova", language |-> "en", gender |-> "female"],
       [id |-> "shimmer", language |-> "en", gender |-> "female"] >>

\* the list the branch of a provider assigns to voices in get_voices
ResolveVoices(provider, language, gender, category, available, live, shared) ==
    CASE provider = "elevenlabs" ->
            elevenlabs_get_voices_dynamic(available, language, gender, category,
                                          live, shared)
      [] provider = "google" -> google_get_voices_dynamic(language, gender, live)
      [] provider = "microsoft" -> microsoft_get_voices_dynamic(language, gender, live)
      [] provider = "openai" -> IF available THEN OpenAIFallback ELSE << >>
      [] OTHER -> speechify_get_voices_dynamic(available, language, gender, category, live)

\* language or "de", language or "en", language or "all"
OrDefault(language, default) == IF Given(language) THEN language ELSE default

\* error_details of the branch of a provider in get_voices
ErrorDetails(provider, language, available) ==
    CASE provider = "elevenlabs" ->
            [provider |-> "ElevenLabs", error |-> "No voices available",
             api_configured |-> available,
             language_requested |-> OrDefault(language, "de"),
             fallback_used |-> FALSE,
             alternatives |-> <<"Try OpenAI TTS", "Try Speechify",
                                "Configure ElevenLabs API key">>]
      [] provider = "google" ->
            [provider |-> "Google TTS (FREE)", error |-> "No voices available",
             api_configured |-> TRUE,
             language_requested |-> OrDefault(language, "en"),
             fallback_used |-> FALSE,
             alternatives |-> <<"Try Microsoft Edge TTS", "Try ElevenLabs",
                                "Try Speechify">>]
      [] provider = "microsoft" ->
            [provider |-> "Microsoft Edge TTS (FREE)", error |-> "No voices available",
             api_configured |-> TRUE,
             language_requested |-> OrDefault(language, "en"),
             fallback_used |-> FALSE,
             alternatives |-> <<"Try Google TTS", "Try ElevenLabs", "Try OpenAI">>]
      [] provider = "openai" ->
            [provider |-> "OpenAI TTS", error |-> "API key not configured",
             api_configured |-> FALSE,
             alternatives |-> <<"Try ElevenLabs", "Try Speechify",
                                "Configure OpenAI API key">>]
      [] OTHER ->
            [provider |-> "Speechify", error |-> "No voices available",
             api_configured |-> available,
             language_requested |-> OrDefault(language, "all"),
             fallback_used |-> FALSE,
             alternatives |-> <<"Try ElevenLabs", "Try OpenAI TTS",
                                "Configure Speechify API key">>]

\* the detail of the HTTPException 503 of get_voices; the message is the
\* provider's name followed by a fixed text
NoVoicesDetail(error_details) ==
    [message |-> <<error_details.provider, " is not available">>,
     error |-> error_details.error,
     api_configured |-> error_details.api_configured,
     alternatives |-> error_details.alternatives,
     hint |-> "Configure API keys in Admin Settings or try alternative providers"]

\* no voice-list request was made yet
NoResolution == [request |-> None, voices |-> << >>]

\* GET /tts/voices/{provider}.  error_details is set exactly when voices is
\* empty: by "if not voices" for the resolving providers, by the else branch
\* of is_available() for OpenAI.
get_voices(provider, language, gender, category, available, live, shared) ==
    /\ LET voices == ResolveVoices(provider, language, gender, category,
                                   available, live, shared)
       IN  /\ resolved' = [request |-> Some([provider |-> provider,
                                             language |-> language,
                                             gender |-> gender,
                                             category |-> category]),
                           voices |-> voices]
           /\ IF voices = << >>
              THEN RespondWith("get_voices", 503,
                       Some(NoVoicesDetail(ErrorDetails(provider, language, available))))
              ELSE RespondWith("get_voices", 200, Some(voices))
    /\ UNCHANGED <<research, rtasks, production, ptasks, speech>>

\* the query parameters of the voice-list requests
LanguageFilters == {Null, "en", "de", "de-DE", "xx"}
GenderFilters == {Null, "female", "neutral"}
CategoryFilters == {Null, "professional"}

\* a bug that records the poll in the job it reports
get_production_status_recording(production_job_id) ==
    /\ UNCHANGED <<research, rtasks, ptasks, speech, resolved>>
    /\ IF production_job_id > Len(production)
       THEN Respond("get_production_status", 404) /\ UNCHANGED production
       ELSE LET job == production[production_job_id]
            IN  /\ production' = [production EXCEPT
                       ![production_job_id].current_step = "Polled"]
                /\ RespondWith("get_production_status", 200,
                       Some([production_job_id |-> production_job_id,
                             status |-> job.status,
                             progress_percent |-> job.progress_percent,
                             current_step |-> job.current_step,
                             segments_generated |-> job.segments_generated,
                             total_segments |-> job.total_segments,
                             error_message |-> job.error_message]))

\* GET /production/status/{production_job_id}: the ProductionStatusResponse
get_production_status(production_job_id) ==
    /\ UNCHANGED <<research, rtasks, production, ptasks, speech, resolved>>
    /\ IF production_job_id > Len(production)
       THEN Respond("get_production_status", 404)
       ELSE LET job == production[production_job_id]
            IN  RespondWith("get_production_status", 200,
                    Some([production_job_id |-> production_job_id,
                          status |-> job.status,
                          progress_percent |-> job.progress_percent,
                          current_step |-> job.current_step,
                          segments_generated |-> job.segments_generated,
                          total_segments |-> job.total_segments,
                          error_message |-> job.error_message]))

\* ---------------------------------------------------------------- spec
Init ==
    /\ research = << >>
    /\ rtasks = << >>
    /\ production = << >>
    /\ ptasks = << >>
    /\ response = [op |-> "none", code |-> 0, body |-> None]
    /\ speech = NoSpeech
    /\ resolved = NoResolution

Next ==
    \/ \E available \in BOOLEAN : start_research(available)
    \/ \E r \in ResearchIds : execute_research_job_begin(r)
    \/ \E r \in ResearchIds, raises \in BOOLEAN, failing \in FailingAudiences,
          stored \in BOOLEAN :
           execute_research_job_research(r, raises, failing, stored)
    \/ \E r \in ResearchIds, outcome \in SaveOutcomes, stored \in BOOLEAN :
           execute_research_job_save(r, outcome, stored)
    \/ \E r \in ResearchIds, a \in Audiences : start_production(r, a)
    \/ \E p \in ProductionIds, va \in VoiceRequests : generate_segments(p, va)
    \/ \E t \in 1..MaxTasks : execute_segment_generation_begin(t)
    \/ \E t \in 1..MaxTasks, raises \in BOOLEAN, stored \in BOOLEAN :
           generate_segments_mkdir(t, raises, stored)
    \/ \E t \in 1..MaxTasks, synthesized \in BOOLEAN : generate_segments_step(t, synthesized)
    \/ \E t \in 1..MaxTasks : execute_segment_generation_finish(t)
    \/ \E p \in ProductionIds, tl \in TimelineRequests : update_timeline(p, tl)
    \/ \E p \in ProductionIds, file_ok \in BOOLEAN : export_podcast(p, file_ok)
    \/ \E p \in ProductionIds : get_production_status(p)

Spec == Init /\ [][Next]_vars

\* The research pipeline alone, with its polling endpoints, up to the
\* creation of production jobs from its results: no production action writes
\* a research row.
\* BackgroundTasks runs every task it was given, and every awaited call of a
\* task returns or raises: no step of an enqueued execution waits forever
Fairness ==
    /\ \A r \in ResearchIds :
           /\ WF_vars(execute_research_job_begin(r))
           /\ WF_vars(\E raises \in BOOLEAN, failing \in FailingAudiences,
                         stored \in BOOLEAN :
                          execute_research_job_research(r, raises, failing, stored))
           /\ WF_vars(\E outcome \in SaveOutcomes, stored \in BOOLEAN :
                          execute_research_job_save(r, outcome, stored))
    /\ \A t \in 1..MaxTasks :
           /\ WF_vars(execute_segment_generation_begin(t))
           /\ WF_vars(\E raises \in BOOLEAN, stored \in BOOLEAN :
                          generate_segments_mkdir(t, raises, stored))
           /\ WF_vars(\E synthesized \in BOOLEAN : generate_segments_step(t, synthesized))
           /\ WF_vars(execute_segment_generation_finish(t))

\* The commands and the executors of Next around one script (middle_aged: two
\* segments, two speakers) and one timeline request, without the read-only
\* status endpoint
NextFair ==
    \/ \E available \in BOOLEAN : start_research(available)
    \/ \E r \in ResearchIds : execute_research_job_begin(r)
    \/ \E r \in ResearchIds, raises \in BOOLEAN, failing \in FailingAudiences,
          stored \in BOOLEAN :
           execute_research_job_research(r, raises, failing, stored)
    \/ \E r \in ResearchIds, outcome \in SaveOutcomes, stored \in BOOLEAN :
           execute_research_job_save(r, outcome, stored)
    \/ \E r \in ResearchIds : start_production(r, "middle_aged")
    \/ \E p \in ProductionIds, va \in VoiceRequests : generate_segments(p, va)
    \/ \E t \in 1..MaxTasks : execute_segment_generation_begin(t)
    \/ \E t \in 1..MaxTasks, raises \in BOOLEAN, stored \in BOOLEAN :
           generate_segments_mkdir(t, raises, stored)
    \/ \E t \in 1..MaxTasks, synthesized \in BOOLEAN : generate_segments_step(t, synthesized)
    \/ \E t \in 1..MaxTasks : execute_segment_generation_finish(t)
    \/ \E p \in ProductionIds : update_timeline(p, EditedTimeline(8, << EditedSegment >>))
    \/ \E p \in ProductionIds, file_ok \in BOOLEAN : export_podcast(p, file_ok)

SpecFair == Init /\ [][NextFair]_vars /\ Fairness

\* Two production jobs of one completed research job and one script: the
\* research executor on its successful path, every production command (the
\* generate-segments requests with a voice for each character) and every
\* step of the production executor
PairIds == 1..MaxJobPair

NextPair ==
    \/ start_research(TRUE)
    \/ \E r \in ResearchIds : execute_research_job_begin(r)
    \/ \E r \in ResearchIds : execute_research_job_research(r, FALSE, {}, TRUE)
    \/ \E r \in ResearchIds : execute_research_job_save(r, "ok", TRUE)
    \/ \E r \in ResearchIds : start_production_upto(r, "middle_aged", MaxJobPair)
    \/ \E p \in PairIds, va \in {v \in VoiceRequests : Len(v) = Len(Characters)} :
           generate_segments(p, va)
    \/ \E t \in 1..MaxTasks : execute_segment_generation_begin(t)
    \/ \E t \in 1..MaxTasks, raises \in BOOLEAN : generate_segments_mkdir(t, raises, TRUE)
    \/ \E t \in 1..MaxTasks, synthesized \in BOOLEAN : generate_segments_step(t, synthesized)
    \/ \E t \in 1..MaxTasks : execute_segment_generation_finish(t)
    \/ \E p \in PairIds : update_timeline(p, EditedTimeline(8, << EditedSegment >>))
    \/ \E p \in PairIds : export_podcast(p, TRUE)
    \/ \E p \in PairIds : get_production_status(p)

SpecPair == Init /\ [][NextPair]_vars

NextResearch ==
    \/ \E available \in BOOLEAN : start_research(available)
    \/ \E r \in ResearchIds : execute_research_job_begin(r)
    \/ \E r \in ResearchIds, raises \in BOOLEAN, failing \in FailingAudiences,
          stored \in BOOLEAN :
           execute_research_job_research(r, raises, failing, stored)
    \/ \E r \in ResearchIds, outcome \in SaveOutcomes, stored \in BOOLEAN :
           execute_research_job_save(r, outcome, stored)
    \/ \E r \in ResearchIds, a \in Audiences : start_production(r, a)
    \/ \E r \in ResearchIds : get_research_status(r)
    \/ \E r \in ResearchIds : get_research_result(r)

SpecResearch == Init /\ [][NextResearch]_vars

\* One synthesis adapter call at a time: the adapters keep no state between
\* calls.
NextSpeech ==
    \/ \E req \in SpeechRequests, available \in BOOLEAN : generate_speech(req, available)
    \/ \E outcome \in AttemptOutcomes : generate_speech_post(outcome)
    \/ generate_speech_sleep

SpecSpeech == Init /\ [][NextSpeech]_vars

\* The voice-list endpoint alone: it reads no job and keeps no state.
NextVoices ==
    \E provider \in VoiceProviders, language \in LanguageFilters,
       gender \in GenderFilters, category \in CategoryFilters,
       available \in BOOLEAN, live \in LiveOutcomes, shared \in LiveOutcomes :
        get_voices(provider, language, gender, category, available, live, shared)

SpecVoices == Init /\ [][NextVoices]_vars

\* ---------------------------------------------------------------- claims
\* the coroutines enqueued for a production job, ended ones included
TasksOf(p) == {t \in 1..Len(ptasks) : ptasks[t].production_job_id = p}

\* the segments of the script a production job reads in generate_segments
JobScript(p) ==
    LET job == production[p]
        selected == SelectVariant(VariantsOrEmpty(research[job.research_job_id]),
                                  job.selected_variant)
    IN  IF selected = None THEN << >> ELSE Get(selected).segments

\* one voice per character referenced in the script
CoversScript(voice_assignments, script_segments) ==
    \A i \in 1..Len(script_segments) :
        VoiceMapGet(voice_assignments, script_segments[i].speaker_id) # None

\* C1: at most one segment-generation background execution is ever enqueued
\* for a production job, whatever the interleaving of generate-segments
\* requests and background steps.
C1_AtMostOneExecution ==
    \A p \in 1..Len(production) : Cardinality(TasksOf(p)) <= 1

PastVoiceAssignment ==
    {"generating_segments", "ready_for_editing", "editing", "exporting",
     "completed", "failed"}

\* C2: a generate-segments request for a job whose status is past
\* VOICE_ASSIGNMENT answers with the state error 400, enqueues no background
\* execution and leaves every field of the job record unchanged.
C2_LateRequestRejected ==
    [][\A p \in 1..Len(production), va \in VoiceRequests :
          (production[p].status \in PastVoiceAssignment /\ generate_segments(p, va))
              => /\ response'.op = "generate_segments"
                 /\ response'.code = 400
                 /\ production' = production
                 /\ ptasks' = ptasks]_vars

\* a late request was answered while the job's one execution had finished
C2_Witness ==
    /\ Len(production) >= 1
    /\ production[1].status = "ready_for_editing"
    /\ Len(ptasks) = 1
    /\ response.op = "generate_segments"
    /\ response.code = 400

\* C3: a generate-segments request whose voice assignments do not cover every
\* speaker of the selected script fails synchronously: an error response, no
\* background execution enqueued, no field of the job changed.
C3_IncompleteAssignmentRejected ==
    [][\A p \in 1..Len(production), va \in VoiceRequests :
          (/\ production[p].status = "voice_assignment"
           /\ ~CoversScript(va, JobScript(p))
           /\ generate_segments(p, va))
              => /\ response'.code >= 400
                 /\ production' = production
                 /\ ptasks' = ptasks]_vars

\* the segment numbers of a coroutine's audio segments with the given status
NumbersWithStatus(audio_segments, status) ==
    {audio_segments[i].segment_number :
        i \in {j \in 1..Len(audio_segments) : audio_segments[j].status = status}}

\* C4: when synthesis failed for a non-empty proper subset of the script
\* segments, the executor ends in READY_FOR_EDITING with segments_generated
\* equal to the number of script segments, the failed segments in status
\* error and every other segment in status ready.
C4_PartialFailureReady ==
    [][\A t \in 1..Len(ptasks) :
          LET task == ptasks[t]
              all == 1..Len(task.script_segments)
              failed == NumbersWithStatus(task.audio_segments, "error")
              job == production'[task.production_job_id]
          IN  (/\ failed # {}
               /\ failed # all
               /\ execute_segment_generation_finish(t))
                  => /\ job.status = "ready_for_editing"
                     /\ job.segments_generated = Len(task.script_segments)
                     /\ NumbersWithStatus(Get(job.segments_data), "error") = failed
                     /\ NumbersWithStatus(Get(job.segments_data), "ready") = all \ failed]_vars

\* the segments of the speech track of a job's timeline
SpeechSegments(job) == Get(SpeechTrack(Get(job.timeline_data).tracks)).segments

\* C5: in the timeline the assembler built (the job is READY_FOR_EDITING),
\* the speech track is in increasing segment number, starts at 0 and has
\* start_time[i+1] = end_time[i] for every consecutive pair.
C5_SpeechTrackContiguous ==
    \A p \in 1..Len(production) :
        production[p].status = "ready_for_editing" =>
            LET segs == SpeechSegments(production[p])
            IN  /\ \A i \in 1..(Len(segs) - 1) :
                       /\ segs[i].segment_number < segs[i + 1].segment_number
                       /\ segs[i + 1].start_time = segs[i].end_time
                /\ segs # << >> => segs[1].start_time = 0

RECURSIVE SumReadyDuration(_)
SumReadyDuration(segments) ==
    IF segments = << >> THEN 0
    ELSE (IF segments[1].status = "ready" THEN segments[1].duration ELSE 0)
         + SumReadyDuration(Tail(segments))

\* C6: when some segments failed, the assembled timeline holds no error
\* segment in its speech track and its total duration is the sum of the
\* ready segments' durations.
C6_TimelineFromReadyOnly ==
    \A p \in 1..Len(production) :
        (/\ production[p].status = "ready_for_editing"
         /\ NumbersWithStatus(Get(production[p].segments_data), "error") # {})
            => /\ NumbersWithStatus(SpeechSegments(production[p]), "error") = {}
               /\ Get(production[p].timeline_data).total_duration
                      = SumReadyDuration(Get(production[p].segments_data))

\* C7: a COMPLETED research job holds a research result and at least one
\* script variant.
C7_CompletedHasVariant ==
    \A r \in 1..Len(research) :
        research[r].status = "completed" =>
            /\ research[r].research_data # Null
            /\ research[r].variants_data # None
            /\ Len(Get(research[r].variants_data)) >= 1

\* C8: a FAILED research job has an error_message and no result payload
\* (research data and variants are null).
C8_FailedHasNoResult ==
    \A r \in 1..Len(research) :
        research[r].status = "failed" =>
            /\ research[r].error_message # Null
            /\ research[r].research_data = Null
            /\ research[r].variants_data = None

ResearchEdges ==
    { <<"pending", "researching">>, <<"researching", "generating">>,
      <<"generating", "completed">>, <<"researching", "failed">>,
      <<"generating", "failed">> }

\* C9: a research job starts PENDING and its status changes only along
\* PENDING -> RESEARCHING -> GENERATING -> COMPLETED or from RESEARCHING or
\* GENERATING to FAILED; a COMPLETED or FAILED status never changes.
C9_ResearchTransitions ==
    [][/\ \A r \in 1..Len(research) :
              research'[r].status # research[r].status
                  => <<research[r].status, research'[r].status>> \in ResearchEdges
       /\ \A r \in (Len(research) + 1)..Len(research') :
              research'[r].status = "pending"]_vars

\* a job went the whole way and its executor has returned
C9_Witness ==
    /\ Len(research) >= 1
    /\ research[1].status = "completed"
    /\ rtasks[1].pc = "done"

ProductionStatuses ==
    {"voice_assignment", "generating_segments", "ready_for_editing", "editing",
     "exporting", "completed", "failed"}

ProductionEdges ==
    { <<"voice_assignment", "generating_segments">>,
      <<"generating_segments", "ready_for_editing">>,
      <<"ready_for_editing", "editing">>,
      <<"editing", "exporting">>,
      <<"exporting", "completed">> }
    \cup {<<s, "failed">> : s \in ProductionStatuses \ {"failed"}}

\* C10: every status change of a production job is an edge of the chain
\* VOICE_ASSIGNMENT -> GENERATING_SEGMENTS -> READY_FOR_EDITING -> EDITING ->
\* EXPORTING -> COMPLETED or an edge into FAILED.
C10_ProductionTransitions ==
    [][\A p \in 1..Len(production) :
          production'[p].status # production[p].status
              => <<production[p].status, production'[p].status>> \in ProductionEdges]_vars

TerminalStatuses == {"completed", "failed"}

\* C11: once a production job is COMPLETED or FAILED its record is
\* read-only: no generate-segments, update-timeline or export command and no
\* background step changes its status or any other field.
C11_TerminalReadOnly ==
    [][\A p \in 1..Len(production) :
          production[p].status \in TerminalStatuses
              => production'[p] = production[p]]_vars

TimelineStatuses == {"ready_for_editing", "editing", "completed"}

\* C12: in every reachable state the timeline of a production job is
\* non-null if and only if its status is READY_FOR_EDITING, EDITING or
\* COMPLETED.
C12_TimelineIffStatus ==
    \A p \in 1..Len(production) :
        (production[p].timeline_data # None)
            <=> (production[p].status \in TimelineStatuses)

\* C13: an export request whose export operation fails leaves the job
\* FAILED, never READY_FOR_EDITING or EDITING.
C13_ExportFailureFails ==
    [][\A p \in 1..Len(production), file_ok \in BOOLEAN :
          (/\ production[p].timeline_data # None
           /\ ~export_final_podcast(Get(production[p].timeline_data), file_ok)
           /\ export_podcast(p, file_ok))
              => production'[p].status = "failed"]_vars

\* the duration the segments of a timeline's tracks give: the greatest end
\* time on any track
RECURSIVE TracksDuration(_)
TracksDuration(tracks) ==
    IF tracks = << >> THEN 0
    ELSE LET here == MaxEndTime(tracks[1].segments)
             rest == TracksDuration(Tail(tracks))
         IN  IF here >= rest THEN here ELSE rest

\* C18: an update-timeline request whose total_duration differs from the
\* duration derived from its tracks' segments is rejected with a validation
\* error and leaves the stored timeline and the status unchanged.
C18_InconsistentTimelineRejected ==
    [][\A p \in 1..Len(production), tl \in TimelineRequests :
          (/\ tl.total_duration # TracksDuration(tl.tracks)
           /\ update_timeline(p, tl))
              => /\ response'.op = "update_timeline"
                 /\ response'.code >= 400
                 /\ production'[p].timeline_data = production[p].timeline_data
                 /\ production'[p].status = production[p].status]_vars

\* C19: when synthesis failed for every segment of the script, the executor
\* ends the job in FAILED with an error_message, not in READY_FOR_EDITING.
C19_AllFailedFails ==
    [][\A t \in 1..Len(ptasks) :
          LET task == ptasks[t]
              job == production'[task.production_job_id]
          IN  (/\ NumbersWithStatus(task.audio_segments, "error")
                      = 1..Len(task.script_segments)
               /\ execute_segment_generation_finish(t))
                  => /\ job.status = "failed"
                     /\ job.error_message # Null]_vars

\* the fields of a ProductionStatusResponse that hold a number of segments or
\* a percentage
CountFields(body) ==
    DOMAIN body \ {"production_job_id", "status", "current_step", "error_message"}

\* C20: the status payload of a READY_FOR_EDITING job carries a count that
\* is non-zero exactly when one of the job's segments has status error.
C20_FailedCountReported ==
    [][\A p \in 1..Len(production) :
          (/\ production[p].status = "ready_for_editing"
           /\ get_production_status(p))
              => \E f \in CountFields(Get(response'.body)) :
                     (Get(response'.body)[f] # 0)
                         <=> (NumbersWithStatus(Get(production[p].segments_data),
                                                "error") # {})]_vars

\* the upstream outcomes the retry policy is for: a 5xx status and a timeout
TransientOutcomes == {"server_error", "timeout"}

\* the i-th request of the running call was followed by a wait and a retry,
\* or the wait for it is the next thing the call does
Retried(i) ==
    \/ i = Len(speech.outcomes) /\ speech.pc = "sleep" /\ Len(speech.sleeps) = i - 1
    \/ /\ Len(speech.sleeps) >= i
       /\ Len(speech.outcomes) > i \/ speech.pc = "post"

\* C14: a generate_speech call of the OpenAI, ElevenLabs or Speechify
\* adapter issues at most 3 upstream requests; after a 5xx status or a
\* timeout it waits and retries while fewer than 3 requests were made, the
\* waits being 1 s and then 2 s; a pass that succeeds ends the call with no
\* further request.
C14_BoundedRetry ==
    /\ Len(speech.outcomes) <= 3
    /\ Len(speech.sleeps) <= 2
    /\ \A i \in 1..Len(speech.sleeps) : speech.sleeps[i] = 2 ^ (i - 1)
    /\ \A i \in 1..Len(speech.outcomes) :
           /\ speech.outcomes[i] \in TransientOutcomes
                  => IF i < 3 THEN Retried(i)
                     ELSE speech.pc = "raised" /\ Len(speech.sleeps) = 2
           /\ speech.outcomes[i] = "ok"
                  => i = Len(speech.outcomes) /\ speech.pc = "returned"

\* a call that met a 5xx status, then a timeout, and succeeded on its third
\* request after waiting 1 s and 2 s
C14_Witness ==
    /\ speech.pc = "returned"
    /\ speech.outcomes = <<"server_error", "timeout", "ok">>
    /\ speech.sleeps = <<1, 2>>

\* C15: a 4xx status fails the call at once: the request that met it is the
\* last one, no wait follows it, and when it answered the first request the
\* call made exactly one request; a call that fails its input validation
\* made no request.
C15_ClientErrorNotRetried ==
    /\ \A i \in 1..Len(speech.outcomes) :
           speech.outcomes[i] = "client_error"
               => /\ i = Len(speech.outcomes)
                  /\ speech.pc = "raised"
                  /\ Len(speech.sleeps) = i - 1
    /\ (speech.pc = "raised" /\ speech.error = "ValueError")
           => speech.outcomes = << >> /\ speech.sleeps = << >>

\* the providers whose get_voices has a non-empty static list
FallbackProviders == {"elevenlabs", "speechify", "google", "microsoft"}

\* C16: for ElevenLabs, Speechify, Google and Microsoft, whatever the
\* filters, the availability and the outcome of the live catalog call, voice
\* resolution returns a non-empty list.
C16_ResolutionNonEmpty ==
    (resolved.request # None /\ Get(resolved.request).provider \in FallbackProviders)
        => resolved.voices # << >>

\* the keys under which a response names the filters of the request
FilterKeys ==
    {"language_requested", "gender_requested", "category_requested",
     "language", "gender", "category", "filters"}

\* C17: a voice-list request surfaces no generic internal error: it answers
\* 200 with a non-empty (live or fallback) list, or with a structured absence
\* that names the provider, the filters requested and alternative providers.
C17_ListOrStructuredAbsence ==
    response.op = "get_voices" =>
        /\ response.code \in {200, 503}
        /\ response.code = 200 => Get(response.body) = resolved.voices
                                     /\ resolved.voices # << >>
        /\ response.code = 503 =>
               LET detail == Get(response.body)
               IN  /\ "message" \in DOMAIN detail
                   /\ "alternatives" \in DOMAIN detail
                   /\ detail.alternatives # << >>
                   /\ DOMAIN detail \cap FilterKeys # {}

\* ------------------------------------------------------------------ C21
\* the end_time values of the segments of all tracks of a timeline
EndTimes(timeline) ==
    UNION { { timeline.tracks[k].segments[i].end_time :
                  i \in 1..Len(timeline.tracks[k].segments) } :
            k \in 1..Len(timeline.tracks) }

\* C21: the timeline a finished segment generation stores has a
\* total_duration that is the greatest end_time of the segments of all its
\* tracks, and 0 when the tracks hold no segment.
C21_TotalDurationIsMaxEnd ==
    [][\A t \in 1..MaxTasks :
          execute_segment_generation_finish(t) =>
              LET timeline ==
                      Get(production'[ptasks[t].production_job_id].timeline_data)
              IN  IF EndTimes(timeline) = {}
                  THEN timeline.total_duration = 0
                  ELSE /\ timeline.total_duration \in EndTimes(timeline)
                       /\ \A e \in EndTimes(timeline) : e <= timeline.total_duration]_vars

\* an assembled timeline whose last segment failed after an earlier one was
\* synthesized: the greatest end_time is not the last one
C21_Witness ==
    \E p \in 1..Len(production) :
        /\ production[p].status = "ready_for_editing"
        /\ production[p].timeline_data # None
        /\ LET timeline == Get(production[p].timeline_data)
               segments == timeline.tracks[1].segments
           IN  /\ segments # << >>
               /\ segments[Len(segments)].end_time < timeline.total_duration

PolledFields ==
    {"status", "progress_percent", "current_step", "segments_generated",
     "total_segments", "error_message"}

\* the last response is a status answer for the job and the job still has the
\* values it reports: nothing has changed the job since that answer
AnsweredAndUnchanged(p) ==
    /\ response.op = "get_production_status"
    /\ IF p > Len(production) THEN response.code = 404
       ELSE /\ response.code = 200
            /\ response.body # None
            /\ Get(response.body).production_job_id = p
            /\ \A f \in PolledFields : Get(response.body)[f] = production[p][f]

\* C24: getProductionStatus writes no job, no research job and no task, and
\* a call that follows an answer for the same job, the job being as that
\* answer reported it, returns that answer again.
C24_StatusReadOnly ==
    [][\A p \in ProductionIds :
          get_production_status(p) =>
              /\ production' = production
              /\ ptasks' = ptasks
              /\ research' = research
              /\ rtasks' = rtasks
              /\ (AnsweredAndUnchanged(p) => response' = response)]_vars

\* a poll answered while the segments of the job are generated
C24_Witness ==
    /\ response.op = "get_production_status"
    /\ response.code = 200
    /\ response.body # None
    /\ Get(response.body).status = "generating_segments"
    /\ \E p \in 1..Len(production) :
           /\ Get(response.body).production_job_id = p
           /\ \A f \in PolledFields : Get(response.body)[f] = production[p][f]

\* ------------------------------------------------------------------ C25
\* the step of task t issues a synthesis request: the speaker of the segment
\* at hand has a voice
IssuesRequest(t) ==
    /\ t \in 1..Len(ptasks)
    /\ ptasks[t].pc = "segments"
    /\ ptasks[t].idx <= Len(ptasks[t].script_segments)
    /\ VoiceMapGet(ptasks[t].voice_assignments,
                   ptasks[t].script_segments[ptasks[t].idx].speaker_id) # None

\* C25: within one production job a synthesis request is issued while no
\* other execution of the job is in its synthesis loop, only after every
\* lower-numbered segment has become ready or error, and whatever its outcome
\* the execution goes on to the next segment.
C25_SequentialSynthesis ==
    [][\A t \in 1..MaxTasks : \A synthesized \in BOOLEAN :
          (IssuesRequest(t) /\ generate_segments_step(t, synthesized)) =>
              /\ \A u \in TasksOf(ptasks[t].production_job_id) \ {t} :
                     ptasks[u].pc # "segments"
              /\ \A n \in 1..(ptasks[t].idx - 1) :
                     \E k \in 1..Len(ptasks[t].audio_segments) :
                         /\ ptasks[t].audio_segments[k].segment_number = n
                         /\ ptasks[t].audio_segments[k].status \in {"ready", "error"}
              /\ ptasks'[t].pc = "segments"
              /\ ptasks'[t].idx = ptasks[t].idx + 1]_vars

\* ------------------------------------------------------------------ C26
\* C26: in every step the progress_percent of every research job and of every
\* production job stays within 0..100 and does not decrease.
C26_ProgressMonotone ==
    [][/\ \A r \in 1..Len(research) :
             /\ research'[r].progress_percent \in 0..100
             /\ research'[r].progress_percent >= research[r].progress_percent
       /\ \A p \in 1..Len(production) :
             /\ production'[p].progress_percent \in 0..100
             /\ production'[p].progress_percent >= production[p].progress_percent]_vars

\* ------------------------------------------------------------------ C27
ResearchTerminal == {"completed", "failed"}

ProductionTerminal == {"completed", "failed"}

\* C27: completed_at of a job is null while its status is not terminal, is
\* set by the step that takes the job into completed or into failed, and is
\* not written again once it is set.
C27_CompletedAtOnTerminal ==
    [][/\ \A r \in 1..Len(research) :
             /\ research'[r].status \notin ResearchTerminal =>
                    research'[r].completed_at = Null
             /\ (research[r].status \notin ResearchTerminal
                    /\ research'[r].status \in ResearchTerminal) =>
                    research'[r].completed_at # Null
             /\ research[r].completed_at # Null =>
                    research'[r].completed_at = research[r].completed_at
       /\ \A p \in 1..Len(production) :
             /\ production'[p].status \notin ProductionTerminal =>
                    production'[p].completed_at = Null
             /\ (production[p].status \notin ProductionTerminal
                    /\ production'[p].status \in ProductionTerminal) =>
                    production'[p].completed_at # Null
             /\ production[p].completed_at # Null =>
                    /\ production'[p].completed_at = production[p].completed_at
                    /\ \A file_ok \in BOOLEAN :
                           export_podcast(p, file_ok) => response'.code # 200]_vars

\* ------------------------------------------------------------------ C28
\* the segment was synthesized with the voice the job stores for its character
SynthesizedWithStored(job, segment) ==
    /\ job.voice_assignments # None
    /\ LET stored == VoiceMapGet(Get(job.voice_assignments), segment.character_id)
       IN  /\ stored # None
           /\ Get(stored).provider = segment.provider
           /\ Get(stored).voice_id = segment.voice_id

\* C28: once a job has left voice_assignment its stored voice assignments
\* stay as they are, and every ready segment of the job's result carries the
\* provider and voice_id the job stores for the segment's character.
C28_AssignmentsFixed ==
    [][\A p \in 1..Len(production) :
          /\ production[p].status # "voice_assignment" =>
                 production'[p].voice_assignments = production[p].voice_assignments
          /\ production'[p].segments_data # None =>
                 \A k \in 1..Len(Get(production'[p].segments_data)) :
                     Get(production'[p].segments_data)[k].status = "ready" =>
                         SynthesizedWithStored(production'[p],
                                               Get(production'[p].segments_data)[k])]_vars

\* ------------------------------------------------------------------ C29
\* the providers whose voice resolution has the four fallback cases
LiveCatalogProviders == {"elevenlabs", "speechify"}

StaticCatalog(provider) ==
    IF provider = "elevenlabs" THEN ElevenLabsFallback ELSE SpeechifyFallback

\* the static catalog filtered by gender and category, the language ignored
FilteredCatalog(provider, gender, category) ==
    SelectSeq(StaticCatalog(provider), LAMBDA v :
        /\ ~Given(gender) \/ v.gender = gender
        /\ ~Given(category) \/ CategoryOf(v) = category)

\* provider unavailable; every live call raised or returned nothing; or the
\* list returned holds no voice of a live catalog
InFallbackCase(provider, available, live, shared, voices) ==
    \/ ~available
    \/ provider = "speechify" /\ live # "voices"
    \/ provider = "elevenlabs" /\ live # "voices" /\ shared # "voices"
    \/ \A i \in 1..Len(voices) :
           \E j \in 1..Len(StaticCatalog(provider)) :
               voices[i] = StaticCatalog(provider)[j]

\* C29: in each fallback case of ElevenLabs and Speechify voice resolution
\* the list returned is the static catalog filtered by gender and category
\* (the whole catalog when that filter leaves nothing), whatever the language
\* filter and whichever the fallback case.
C29_FallbackSameList ==
    [][\A provider \in LiveCatalogProviders, language \in LanguageFilters,
          gender \in GenderFilters, category \in CategoryFilters,
          available \in BOOLEAN, live \in LiveOutcomes, shared \in LiveOutcomes :
          (/\ get_voices(provider, language, gender, category, available, live, shared)
           /\ InFallbackCase(provider, available, live, shared, resolved'.voices)) =>
              IF FilteredCatalog(provider, gender, category) # << >>
              THEN resolved'.voices = FilteredCatalog(provider, gender, category)
              ELSE resolved'.voices = StaticCatalog(provider)]_vars

\* ------------------------------------------------------------------ C30
\* an execution of the job is enqueued or running
HasLiveExecution(p) == \E t \in TasksOf(p) : ptasks[t].pc # "done"

\* C30: every research job reaches completed or failed, and every production
\* job with an execution enqueued or running reaches ready_for_editing or
\* failed.
C30_JobsTerminate ==
    /\ \A r \in ResearchIds :
           (Len(research) >= r) ~>
               (Len(research) >= r /\ research[r].status \in {"completed", "failed"})
    /\ \A p \in ProductionIds :
           (Len(production) >= p /\ HasLiveExecution(p)) ~>
               (/\ Len(production) >= p
                /\ production[p].status \in {"ready_for_editing", "failed"})

\* ------------------------------------------------------------------ C23
\* a command addressed to job p
CommandOn(p) ==
    \/ \E va \in VoiceRequests : generate_segments(p, va)
    \/ \E timeline \in TimelineRequests : update_timeline(p, timeline)
    \/ \E file_ok \in BOOLEAN : export_podcast(p, file_ok)
    \/ get_production_status(p)

\* a step of a background execution enqueued for job p
BackgroundStepOn(p) ==
    \E t \in TasksOf(p) :
        \/ execute_segment_generation_begin(t)
        \/ \E raises \in BOOLEAN, stored \in BOOLEAN : generate_segments_mkdir(t, raises, stored)
        \/ \E synthesized \in BOOLEAN : generate_segments_step(t, synthesized)
        \/ execute_segment_generation_finish(t)

\* C23: a startProduction call that repeats the research_job_id and the
\* selected_variant of an existing job adds a job under a new id, in
\* voice_assignment, and leaves the existing jobs as they are; the execution
\* an accepted generate-segments request enqueues belongs to the job of the
\* request; and a command or a background step on one job leaves every field
\* and every execution of the other jobs unchanged.
C23_JobsIndependent ==
    [][/\ \A r \in ResearchIds, a \in Audiences :
             (start_production_upto(r, a, MaxJobPair)
                  /\ Len(production') # Len(production)) =>
                 /\ Len(production') = Len(production) + 1
                 /\ production'[Len(production')].status = "voice_assignment"
                 /\ production'[Len(production')].research_job_id = r
                 /\ production'[Len(production')].selected_variant = a
                 /\ \A q \in 1..Len(production) : production'[q] = production[q]
       /\ \A p \in 1..Len(production) :
             (CommandOn(p) \/ BackgroundStepOn(p)) =>
                 /\ Len(production') = Len(production)
                 /\ \A q \in 1..Len(production) \ {p} :
                        /\ production'[q] = production[q]
                        /\ \A t \in TasksOf(q) : ptasks'[t] = ptasks[t]
                 /\ \A t \in (1..Len(ptasks')) \ (1..Len(ptasks)) :
                        ptasks'[t].production_job_id = p]_vars

\* two jobs of the same research job and variant that went different ways:
\* the first is ready for editing, the second failed, each after an
\* execution of its own
C23_Witness ==
    /\ Len(production) = 2
    /\ production[1].research_job_id = production[2].research_job_id
    /\ production[1].selected_variant = production[2].selected_variant
    /\ production[1].status = "ready_for_editing"
    /\ production[2].status = "failed"
    /\ TasksOf(1) # {}
    /\ TasksOf(2) # {}

====
